---- MODULE Spec2Model ----
(***************************************************************************)
(* Flow-log tagging pipeline (src/main.py, src/src/flow_log_process.py).   *)
(*                                                                         *)
(* Text tokens that the code transforms (ports, protocols, lookup keys)    *)
(* are sequences of one-character strings, so that lower(), int() and the  *)
(* "<dstport>_<protocol>" key are computed the way the code computes them. *)
(* Tags are never transformed by the code and are plain strings.           *)
(***************************************************************************)
EXTENDS Integers, Sequences, FiniteSets, TLC

VARIABLES
    lookup_file,        \* the lookup CSV: [exists, rows]
    log_file,           \* the flow-log file: [exists, rows]
    chunk_size,         \* process_logs_in_chunks: chunk_size
    pc,                 \* the stage main() executes next
    error,              \* the exception main() caught ("none" when none)
    failed_at,          \* the stage that raised it
    lookup_table,       \* main: lookup_table (key -> list of tags)
    line_no,            \* process_logs_in_chunks: position of csv_reader
    current_chunk,      \* process_logs_in_chunks: current_chunk
    chunk_list,         \* process_logs_in_chunks: chunk_list / main: tagged_logs
    tag_counts,         \* main: tag_counts
    tag_report,         \* the tag-count output file: [state, rows]
    port_protocol_report \* the port-protocol output file: [state, rows]

vars == <<lookup_file, log_file, chunk_size, pc, error, failed_at, lookup_table,
          line_no, current_chunk, chunk_list, tag_counts, tag_report,
          port_protocol_report>>

----------------------------------------------------------------------------
(* Bounds of the model *)

MaxRows == 2
MaxLines == 3
MaxChunk == 2
MaxLogs == 3

----------------------------------------------------------------------------
(* Python string primitives *)

UpperLetters == <<"A","B","C","D","E","F","G","H","I","J","K","L","M",
                  "N","O","P","Q","R","S","T","U","V","W","X","Y","Z">>
LowerLetters == <<"a","b","c","d","e","f","g","h","i","j","k","l","m",
                  "n","o","p","q","r","s","t","u","v","w","x","y","z">>
Digits == <<"0","1","2","3","4","5","6","7","8","9">>

LowerChar(c) ==
    IF \E i \in 1..Len(UpperLetters) : UpperLetters[i] = c
    THEN LowerLetters[CHOOSE i \in 1..Len(UpperLetters) : UpperLetters[i] = c]
    ELSE c

\* str.lower()
Lower(s) == [i \in 1..Len(s) |-> LowerChar(s[i])]

IsDigit(c) == \E i \in 1..Len(Digits) : Digits[i] = c

DigitValue(c) == (CHOOSE i \in 1..Len(Digits) : Digits[i] = c) - 1

\* int(s) raises ValueError unless s is a decimal literal.  The tokens of the
\* model are made of letters and digits only, so the sign, underscore and
\* surrounding-whitespace forms int() also accepts do not arise.
IsIntLiteral(s) == Len(s) > 0 /\ \A i \in 1..Len(s) : IsDigit(s[i])

RECURSIVE IntPrefix(_, _)
IntPrefix(s, n) ==
    IF n = 0 THEN 0 ELSE 10 * IntPrefix(s, n - 1) + DigitValue(s[n])

\* int(s) for a decimal literal s
IntValue(s) == IntPrefix(s, Len(s))

----------------------------------------------------------------------------
(* Module constants *)

protocol_mapping ==
    (6 :> <<"t","c","p">>) @@ (17 :> <<"u","d","p">>) @@ (1 :> <<"i","c","m","p">>)

column_names ==
    <<"version", "account_id", "interface_id", "srcaddr", "dstaddr",
      "dstport", "srcport", "protocol", "packets", "bytes",
      "start", "end", "action", "log_status">>

DefaultChunkSize == 100000

Untagged == <<"Untagged">>

EmptyTable == [k \in {} |-> <<>>]

----------------------------------------------------------------------------
(* load_lookup_table *)

\* str(row[0])+"_"+row[1]
RowKey(row) == row[1] \o <<"_">> \o row[2]

\* The body of "for row in csv_reader", folded over the rows from row i on.
\* Result: [exc, table].  A row with fewer than three columns raises
\* IndexError; set(list.append(...)) is set(None) and raises TypeError after
\* the append has been made.
RECURSIVE LoadRows(_, _, _)
LoadRows(rows, i, table) ==
    IF i > Len(rows) THEN [exc |-> "none", table |-> table]
    ELSE LET row == rows[i] IN
         IF Len(row) < 2 THEN [exc |-> "IndexError", table |-> table]
         ELSE IF RowKey(row) \notin DOMAIN table
              THEN IF Len(row) < 3
                   THEN [exc |-> "IndexError", table |-> table]
                   ELSE LoadRows(rows, i + 1, (RowKey(row) :> <<row[3]>>) @@ table)
              ELSE IF Len(row) < 3
                   THEN [exc |-> "IndexError", table |-> table]
                   ELSE [exc |-> "TypeError",
                         table |-> [table EXCEPT ![RowKey(row)] = Append(@, row[3])]]

load_lookup_table(file) ==
    IF ~file.exists
    THEN [exc |-> "FileNotFoundError", table |-> EmptyTable]
    ELSE LoadRows(file.rows, 1, EmptyTable)

----------------------------------------------------------------------------
(* tag_flow_logs *)

\* f"{log['dstport']}_{log['protocol']}"
lookup_key(log) == log["dstport"] \o <<"_">> \o log["protocol"]

\* Variant of DefaultTags: an unmatched record is given no tag
DefaultTags_NoList == <<>>

\* ['Untagged']: the tag list of a record whose key is absent from the table
DefaultTags == Untagged

\* The loop body: lowercase the protocol, look the key up, attach the tags
TagOne(log, table) ==
    LET lowered == [log EXCEPT !["protocol"] = Lower(@)]
        tags == IF lookup_key(lowered) \in DOMAIN table
                THEN table[lookup_key(lowered)]
                ELSE DefaultTags
    IN  [c \in DOMAIN log \cup {"tag"} |-> IF c = "tag" THEN tags ELSE lowered[c]]

tag_flow_logs(flow_logs, table) ==
    [i \in 1..Len(flow_logs) |-> TagOne(flow_logs[i], table)]

----------------------------------------------------------------------------
(* collections.Counter, kept in first-seen order of its keys *)

\* Counter's update for one more item k
CounterAdd(counter, k) ==
    IF \E i \in 1..Len(counter) : counter[i].key = k
    THEN [i \in 1..Len(counter) |->
             IF counter[i].key = k
             THEN [counter[i] EXCEPT !.count = @ + 1]
             ELSE counter[i]]
    ELSE Append(counter, [key |-> k, count |-> 1])

RECURSIVE CounterOf(_, _)
CounterOf(items, n) ==
    IF n = 0 THEN <<>> ELSE CounterAdd(CounterOf(items, n - 1), items[n])

Counter(items) == CounterOf(items, Len(items))

----------------------------------------------------------------------------
(* count_tags *)

RECURSIVE FlattenTags(_, _)
FlattenTags(logs, n) ==
    IF n = 0 THEN <<>>
    ELSE FlattenTags(logs, n - 1) \o
         (IF "tag" \in DOMAIN logs[n] THEN logs[n]["tag"] ELSE <<>>)

\* Variant of TagItems: one unit per record, its first tag
TagItems_FirstOnly(tagged_logs) ==
    [i \in 1..Len(tagged_logs) |-> tagged_logs[i]["tag"][1]]

\* The tags list built by the two nested loops: every tag of every record
TagItems(tagged_logs) == FlattenTags(tagged_logs, Len(tagged_logs))

count_tags(tagged_logs) ==
    LET c == Counter(TagItems(tagged_logs))
    IN  [i \in 1..Len(c) |-> [Tag |-> c[i].key, Count |-> c[i].count]]

----------------------------------------------------------------------------
(* count_port_protocol_combinations *)

\* protocol_map.get(p, str(p)).lower(): the keys of protocol_map are
\* integers and p is a string, so get() returns its default
ProtocolName(p) == Lower(p)

RECURSIVE PerTagItems(_, _)
PerTagItems(logs, n) ==
    IF n = 0 THEN <<>>
    ELSE PerTagItems(logs, n - 1) \o
         [j \in 1..Len(logs[n]["tag"]) |->
             <<logs[n]["dstport"], ProtocolName(logs[n]["protocol"])>>]

\* Variant of PortProtocolItems: one pair per (record, tag)
PortProtocolItems_PerTag(tagged_logs) == PerTagItems(tagged_logs, Len(tagged_logs))

\* The generator handed to Counter: one (dstport, protocol) pair per record
PortProtocolItems(tagged_logs) ==
    [i \in 1..Len(tagged_logs) |->
        <<tagged_logs[i]["dstport"], ProtocolName(tagged_logs[i]["protocol"])>>]

port_protocol_counts(tagged_logs) ==
    LET c == Counter(PortProtocolItems(tagged_logs))
    IN  [i \in 1..Len(c) |->
            [dstport |-> c[i].key[1], protocol |-> c[i].key[2], count |-> c[i].count]]

----------------------------------------------------------------------------
(* process_logs_in_chunks *)

\* [value for value in row if value]
NonEmpty(row) == SelectSeq(row, LAMBDA v : v # <<>>)

\* Variant of RowAccepted: longer rows are accepted too
RowAccepted_AtLeast(row) == Len(row) >= Len(column_names)

\* len(row) == len(column_names)
RowAccepted(row) == Len(row) = Len(column_names)

ColumnIndex(c) == CHOOSE i \in 1..Len(column_names) : column_names[i] = c

\* int(row[i]) is evaluated for the protocol column only
RaisesValueError(row) == ~IsIntLiteral(row[ColumnIndex("protocol")])

\* The dict comprehension building flow_log
MakeFlowLog(row) ==
    [c \in {column_names[i] : i \in 1..Len(column_names)} |->
        IF c = "protocol" /\ IntValue(row[ColumnIndex(c)]) \in DOMAIN protocol_mapping
        THEN protocol_mapping[IntValue(row[ColumnIndex(c)])]
        ELSE row[ColumnIndex(c)]]

\* Variant of FlushNeeded: the buffer is flushed one record late
FlushNeeded_Late(chunk, size) == Len(chunk) > size

\* len(current_chunk) >= chunk_size
FlushNeeded(chunk, size) == Len(chunk) >= size

\* Variant of Extend: the tagged chunk replaces the accumulated list
Extend_Replace(list, tagged) == tagged

\* chunk_list.extend(tagged_chunk)
Extend(list, tagged) == list \o tagged

----------------------------------------------------------------------------
(* main *)

\* Variant of NextStage: the exception is swallowed and main() goes on
NextStage_Swallow(stage, raised) ==
    CASE stage = "load_lookup_table" -> "open_log"
      [] stage = "open_log" -> "read"
      [] stage = "read" -> "count_tags"
      [] stage = "count_tags" -> "save_tag_counts"
      [] stage = "save_tag_counts" -> "count_port_protocol_combinations"
      [] OTHER -> "done"

\* The order of the calls in the try block; an exception leaves the block
NextStage(stage, raised) ==
    IF raised THEN "done"
    ELSE CASE stage = "load_lookup_table" -> "open_log"
           [] stage = "open_log" -> "read"
           [] stage = "read" -> "count_tags"
           [] stage = "count_tags" -> "save_tag_counts"
           [] stage = "save_tag_counts" -> "count_port_protocol_combinations"
           [] OTHER -> "done"

----------------------------------------------------------------------------
(* The files the pipeline is run on *)

SeqUpTo(S, n) == UNION {[1..k -> S] : k \in 0..n}

Port80 == <<"8","0">>
Port443 == <<"4","4","3">>
Port22 == <<"2","2">>
ProtoTcp == <<"t","c","p">>
ProtoTcpUpper == <<"T","C","P">>
Proto6 == <<"6">>
Proto17 == <<"1","7">>
Proto47 == <<"4","7">>

\* Rows of the lookup CSV as csv.reader yields them
LookupRows ==
    { <<Port80, ProtoTcp, "web">>,
      <<Port80, ProtoTcp, "http-alt">>,
      <<Port80, ProtoTcpUpper, "web">>,
      <<Port22, ProtoTcp>> }

\* A log line as csv.reader(delimiter=' ') yields it: one field per column
LineFields(port, proto) ==
    << <<"2">>, <<"a">>, <<"e">>, <<"s">>, <<"d">>, port, <<"9">>, proto,
       <<"5">>, <<"7">>, <<"1">>, <<"3">>, <<"k">>, <<"o">> >>

\* Two spaces in a row give an empty field
WithGap(fields) == SubSeq(fields, 1, 5) \o << <<>> >> \o SubSeq(fields, 6, Len(fields))

LogLines ==
    { LineFields(Port80, Proto6),
      WithGap(LineFields(Port443, Proto17)),
      LineFields(Port22, Proto47),
      LineFields(Port80, ProtoTcpUpper),
      SubSeq(LineFields(Port80, Proto6), 1, 13),
      Append(LineFields(Port22, Proto47), <<"x">>) }

MissingFile == [exists |-> FALSE, rows |-> <<>>]

NoReport == [state |-> "absent", rows |-> <<>>]

Init ==
    /\ lookup_file \in {MissingFile} \cup
           {[exists |-> TRUE, rows |-> r] : r \in SeqUpTo(LookupRows, MaxRows)}
    /\ log_file \in {MissingFile} \cup
           {[exists |-> TRUE, rows |-> r] : r \in SeqUpTo(LogLines, MaxLines)}
    /\ chunk_size \in (1..MaxChunk) \cup {DefaultChunkSize}
    /\ pc = "load_lookup_table"
    /\ error = "none"
    /\ failed_at = "none"
    /\ lookup_table = EmptyTable
    /\ line_no = 1
    /\ current_chunk = <<>>
    /\ chunk_list = <<>>
    /\ tag_counts = <<>>
    /\ tag_report = NoReport
    /\ port_protocol_report = NoReport

----------------------------------------------------------------------------
(* The steps of main() *)

\* An exception reaches the except clauses of main(), which log it
Raise(kind) ==
    /\ pc' = NextStage(pc, TRUE)
    /\ error' = kind
    /\ failed_at' = pc

Return ==
    /\ pc' = NextStage(pc, FALSE)
    /\ UNCHANGED <<error, failed_at>>

LoadLookupTable ==
    /\ pc = "load_lookup_table"
    /\ LET r == load_lookup_table(lookup_file) IN
         IF r.exc = "none"
         THEN lookup_table' = r.table /\ Return
         ELSE lookup_table' = lookup_table /\ Raise(r.exc)
    /\ UNCHANGED <<lookup_file, log_file, chunk_size, line_no, current_chunk,
                   chunk_list, tag_counts, tag_report, port_protocol_report>>

\* process_logs_in_chunks up to the for loop
OpenLog ==
    /\ pc = "open_log"
    /\ IF log_file.exists
       THEN /\ line_no' = 1
            /\ current_chunk' = <<>>
            /\ chunk_list' = <<>>
            /\ Return
       ELSE /\ UNCHANGED <<line_no, current_chunk, chunk_list>>
            /\ Raise("FileNotFoundError")
    /\ UNCHANGED <<lookup_file, log_file, chunk_size, lookup_table, tag_counts,
                   tag_report, port_protocol_report>>

\* One iteration of "for row in csv_reader"
ReadRow ==
    /\ pc = "read"
    /\ line_no <= Len(log_file.rows)
    /\ LET row == NonEmpty(log_file.rows[line_no]) IN
         IF RowAccepted(row) /\ RaisesValueError(row)
         THEN /\ Raise("ValueError")
              /\ UNCHANGED <<line_no, current_chunk, chunk_list>>
         ELSE LET chunk == IF RowAccepted(row)
                           THEN Append(current_chunk, MakeFlowLog(row))
                           ELSE current_chunk
              IN  /\ IF FlushNeeded(chunk, chunk_size)
                     THEN /\ chunk_list' = Extend(chunk_list, tag_flow_logs(chunk, lookup_table))
                          /\ current_chunk' = <<>>
                     ELSE /\ chunk_list' = chunk_list
                          /\ current_chunk' = chunk
                  /\ line_no' = line_no + 1
                  /\ UNCHANGED <<pc, error, failed_at>>
    /\ UNCHANGED <<lookup_file, log_file, chunk_size, lookup_table, tag_counts,
                   tag_report, port_protocol_report>>

\* The loop is exhausted: the remainder is tagged and chunk_list returned
EndOfFile ==
    /\ pc = "read"
    /\ line_no > Len(log_file.rows)
    /\ IF current_chunk # <<>>
       THEN /\ chunk_list' = Extend(chunk_list, tag_flow_logs(current_chunk, lookup_table))
            /\ UNCHANGED current_chunk
       ELSE UNCHANGED <<chunk_list, current_chunk>>
    /\ Return
    /\ UNCHANGED <<lookup_file, log_file, chunk_size, lookup_table, line_no,
                   tag_counts, tag_report, port_protocol_report>>

CountTags ==
    /\ pc = "count_tags"
    /\ tag_counts' = count_tags(chunk_list)
    /\ Return
    /\ UNCHANGED <<lookup_file, log_file, chunk_size, lookup_table, line_no,
                   current_chunk, chunk_list, tag_report, port_protocol_report>>

\* Opening or writing the output file may fail, leaving no file or a partial one
WriteOutcomes == {"written", "absent", "partial"}

SaveTagCounts ==
    /\ pc = "save_tag_counts"
    /\ \E outcome \in WriteOutcomes :
         IF outcome = "written"
         THEN tag_report' = [state |-> "written", rows |-> tag_counts] /\ Return
         ELSE tag_report' = [state |-> outcome, rows |-> <<>>] /\ Raise("OSError")
    /\ UNCHANGED <<lookup_file, log_file, chunk_size, lookup_table, line_no,
                   current_chunk, chunk_list, tag_counts, port_protocol_report>>

CountPortProtocolCombinations ==
    /\ pc = "count_port_protocol_combinations"
    /\ \E outcome \in WriteOutcomes :
         IF outcome = "written"
         THEN /\ port_protocol_report' =
                    [state |-> "written", rows |-> port_protocol_counts(chunk_list)]
              /\ Return
         ELSE /\ port_protocol_report' = [state |-> outcome, rows |-> <<>>]
              /\ Raise("OSError")
    /\ UNCHANGED <<lookup_file, log_file, chunk_size, lookup_table, line_no,
                   current_chunk, chunk_list, tag_counts, tag_report>>

Next ==
    \/ LoadLookupTable
    \/ OpenLog
    \/ ReadRow
    \/ EndOfFile
    \/ CountTags
    \/ SaveTagCounts
    \/ CountPortProtocolCombinations

Spec == Init /\ [][Next]_vars

----------------------------------------------------------------------------
(* The tagging and counting functions called on their own *)

\* Records as process_logs_in_chunks builds them
FnRecords ==
    { MakeFlowLog(LineFields(port, proto)) :
        port \in {Port80, Port443}, proto \in {Proto6, Proto17} }

\* Lookup dicts; every list of a lookup dict has at least one tag
FnTables ==
    { EmptyTable,
      (RowKey(<<Port80, ProtoTcp>>) :> <<"web">>),
      (RowKey(<<Port80, ProtoTcp>>) :> <<"web", "http-alt">>),
      (RowKey(<<Port80, ProtoTcp>>) :> <<"web", "web">>)
          @@ (RowKey(<<Port443, ProtoTcp>>) :> <<"web">>) }

InitFn ==
    /\ lookup_file = MissingFile
    /\ log_file = MissingFile
    /\ chunk_size = DefaultChunkSize
    /\ pc = "tag_flow_logs"
    /\ error = "none"
    /\ failed_at = "none"
    /\ lookup_table \in FnTables
    /\ line_no = 1
    /\ current_chunk \in SeqUpTo(FnRecords, MaxLogs)
    /\ chunk_list = <<>>
    /\ tag_counts = <<>>
    /\ tag_report = NoReport
    /\ port_protocol_report = NoReport

\* tag_flow_logs(flow_logs, lookup_table) tags the records of flow_logs in
\* place and returns the same list
TagFlowLogs ==
    /\ pc = "tag_flow_logs"
    /\ chunk_list' = tag_flow_logs(current_chunk, lookup_table)
    /\ current_chunk' = chunk_list'
    /\ pc' = "count_tags"
    /\ UNCHANGED <<lookup_file, log_file, chunk_size, error, failed_at,
                   lookup_table, line_no, tag_counts, tag_report,
                   port_protocol_report>>

NextFn ==
    \/ TagFlowLogs
    \/ CountTags
    \/ SaveTagCounts
    \/ CountPortProtocolCombinations

SpecFn == InitFn /\ [][NextFn]_vars

----------------------------------------------------------------------------
(* Vocabulary of the properties *)

\* The number of fields of a flow-log record
FieldCount == 14

AfterRead == {"count_tags", "save_tag_counts", "count_port_protocol_combinations", "done"}

\* process_logs_in_chunks has returned its list to main()
ProcessReturned ==
    /\ pc \in AfterRead
    /\ failed_at \notin {"load_lookup_table", "open_log", "read"}

\* The token lists of the first n lines of the log that have FieldCount tokens,
\* in file order
RECURSIVE WellFormedRows(_)
WellFormedRows(n) ==
    IF n = 0 THEN <<>>
    ELSE IF Len(NonEmpty(log_file.rows[n])) = FieldCount
         THEN Append(WellFormedRows(n - 1), NonEmpty(log_file.rows[n]))
         ELSE WellFormedRows(n - 1)

RECURSIVE SumOf(_, _)
SumOf(f, n) == IF n = 0 THEN 0 ELSE SumOf(f, n - 1) + f[n]

AllTags == {"web", "http-alt", "Untagged"}

\* How often tag t occurs in the tag lists of the records of logs
Occurrences(logs, t) ==
    SumOf([i \in 1..Len(logs) |->
              Cardinality({j \in 1..Len(logs[i]["tag"]) : logs[i]["tag"][j] = t})],
          Len(logs))

\* The tags of the rows of the lookup file whose key is k, in row order
RECURSIVE TagsOfKey(_, _, _)
TagsOfKey(rows, n, k) ==
    IF n = 0 THEN <<>>
    ELSE IF rows[n][1] \o <<"_">> \o rows[n][2] = k
         THEN Append(TagsOfKey(rows, n - 1, k), rows[n][3])
         ELSE TagsOfKey(rows, n - 1, k)

\* The protocol normalisation of the design: a code of the fixed table gives
\* its name, any other token its lowercased text
ProtocolNormalizer(token) ==
    IF token = <<"6">> THEN <<"t","c","p">>
    ELSE IF token = <<"1","7">> THEN <<"u","d","p">>
    ELSE IF token = <<"1">> THEN <<"i","c","m","p">>
    ELSE Lower(token)

----------------------------------------------------------------------------
(* C1: a lookup file whose rows all have three columns loads without error,
   also when a key occurs on several rows, and each key is then mapped to the
   tags of its rows in row order, duplicates kept. *)
C1_DuplicateKeysLoad ==
    (/\ pc # "load_lookup_table"
     /\ lookup_file.exists
     /\ \A i \in 1..Len(lookup_file.rows) : Len(lookup_file.rows[i]) = 3)
    => /\ failed_at # "load_lookup_table"
       /\ \A i \in 1..Len(lookup_file.rows) :
             LET k == lookup_file.rows[i][1] \o <<"_">> \o lookup_file.rows[i][2]
             IN  /\ k \in DOMAIN lookup_table
                 /\ lookup_table[k] =
                        TagsOfKey(lookup_file.rows, Len(lookup_file.rows), k)

(* C2: every tagged record whose dstport equals the port of a lookup row and
   whose protocol equals the lowercased protocol of that row carries the tag
   of that row, whatever the letter case of the row's protocol. *)
C2_CaseInsensitiveMatch ==
    ProcessReturned =>
        \A i \in 1..Len(chunk_list) : \A r \in 1..Len(lookup_file.rows) :
            (/\ Len(lookup_file.rows[r]) = 3
             /\ chunk_list[i]["dstport"] = lookup_file.rows[r][1]
             /\ chunk_list[i]["protocol"] = Lower(lookup_file.rows[r][2]))
            => \E j \in 1..Len(chunk_list[i]["tag"]) :
                   chunk_list[i]["tag"][j] = lookup_file.rows[r][3]

(* C3: after tag_flow_logs every record carries a tag list that is not empty:
   the list of the lookup table for the record's dstport_protocol key when
   the table has that key, and the one-element list "Untagged" when not. *)
C3_OneTagList ==
    pc # "tag_flow_logs" =>
        \A i \in 1..Len(chunk_list) :
            LET log == chunk_list[i]
                k == log["dstport"] \o <<"_">> \o log["protocol"]
            IN  /\ "tag" \in DOMAIN log
                /\ Len(log["tag"]) >= 1
                /\ k \in DOMAIN lookup_table => log["tag"] = lookup_table[k]
                /\ k \notin DOMAIN lookup_table => log["tag"] = <<"Untagged">>

C3_Witness ==
    /\ pc # "tag_flow_logs"
    /\ \E i \in 1..Len(chunk_list) : Len(chunk_list[i]["tag"]) = 2
    /\ \E i \in 1..Len(chunk_list) : chunk_list[i]["tag"] = <<"Untagged">>

(* C4: no line of 14 tokens raises an error, and once the log is processed
   the k-th record holds the normalised protocol of the k-th 14-token line,
   a value that normalising again leaves unchanged. *)
C4_ProtocolNormalized ==
    /\ error # "ValueError"
    /\ ProcessReturned =>
          LET rows == WellFormedRows(Len(log_file.rows)) IN
          /\ Len(chunk_list) = Len(rows)
          /\ \A k \in 1..Len(rows) :
                /\ chunk_list[k]["protocol"] = ProtocolNormalizer(rows[k][8])
                /\ ProtocolNormalizer(chunk_list[k]["protocol"]) = chunk_list[k]["protocol"]

(* C5: reading a line whose token count is not 14 raises nothing and leaves
   the buffer and the accumulated list as they were; the processed records
   are as many as the 14-token lines, and so are the units of the
   port-protocol report. *)
C5_MalformedSkipped ==
    /\ [][(/\ pc = "read"
           /\ line_no <= Len(log_file.rows)
           /\ Len(NonEmpty(log_file.rows[line_no])) # FieldCount)
          => (/\ pc' = "read"
              /\ error' = "none"
              /\ line_no' = line_no + 1
              /\ current_chunk' = current_chunk
              /\ chunk_list' = chunk_list)]_vars
    /\ [](ProcessReturned =>
            /\ Len(chunk_list) = Len(WellFormedRows(Len(log_file.rows)))
            /\ port_protocol_report.state = "written" =>
                  SumOf([i \in 1..Len(port_protocol_report.rows) |->
                            port_protocol_report.rows[i].count],
                        Len(port_protocol_report.rows))
                  = Len(WellFormedRows(Len(log_file.rows))))

C5_Witness ==
    /\ port_protocol_report.state = "written"
    /\ Len(chunk_list) >= 1
    /\ \E i \in 1..Len(log_file.rows) : Len(NonEmpty(log_file.rows[i])) = FieldCount - 1
    /\ \E i \in 1..Len(log_file.rows) : Len(NonEmpty(log_file.rows[i])) = FieldCount + 1

(* C6: count_tags gives one entry per distinct tag of the records, with the
   number of occurrences of that tag, so the counts add up to the sum of the
   lengths of the records' tag lists. *)
C6_TagCountSum ==
    (/\ pc \in {"save_tag_counts", "count_port_protocol_combinations", "done"}
     /\ failed_at \in {"none", "save_tag_counts", "count_port_protocol_combinations"})
    =>
        /\ \A i, j \in 1..Len(tag_counts) :
              tag_counts[i].Tag = tag_counts[j].Tag => i = j
        /\ \A t \in AllTags :
              IF Occurrences(chunk_list, t) = 0
              THEN \A i \in 1..Len(tag_counts) : tag_counts[i].Tag # t
              ELSE \E i \in 1..Len(tag_counts) :
                      tag_counts[i].Tag = t /\ tag_counts[i].Count = Occurrences(chunk_list, t)
        /\ SumOf([i \in 1..Len(tag_counts) |-> tag_counts[i].Count], Len(tag_counts))
           = SumOf([i \in 1..Len(chunk_list) |-> Len(chunk_list[i]["tag"])], Len(chunk_list))

C6_Witness ==
    /\ pc = "save_tag_counts"
    /\ Len(chunk_list) = 2
    /\ \E i \in 1..Len(chunk_list) : Len(chunk_list[i]["tag"]) = 2
    /\ \E i \in 1..Len(tag_counts) : tag_counts[i].Count = 3

(* C7: the port-protocol report has one row per distinct (dstport, protocol)
   pair of the records, and its counts add up to the number of records, one
   unit per record however many tags the record carries. *)
C7_PortProtocolSum ==
    port_protocol_report.state = "written" =>
        LET rows == port_protocol_report.rows IN
        /\ \A i, j \in 1..Len(rows) :
              (rows[i].dstport = rows[j].dstport /\ rows[i].protocol = rows[j].protocol)
              => i = j
        /\ \A i \in 1..Len(rows) :
              rows[i].count =
                 Cardinality({k \in 1..Len(chunk_list) :
                                 /\ chunk_list[k]["dstport"] = rows[i].dstport
                                 /\ chunk_list[k]["protocol"] = rows[i].protocol})
        /\ \A k \in 1..Len(chunk_list) : \E i \in 1..Len(rows) :
              /\ chunk_list[k]["dstport"] = rows[i].dstport
              /\ chunk_list[k]["protocol"] = rows[i].protocol
        /\ SumOf([i \in 1..Len(rows) |-> rows[i].count], Len(rows)) = Len(chunk_list)

C7_Witness ==
    /\ port_protocol_report.state = "written"
    /\ Len(chunk_list) = 3
    /\ Len(port_protocol_report.rows) = 2
    /\ \E i \in 1..Len(chunk_list) : Len(chunk_list[i]["tag"]) = 2

(* C8: whatever the chunk size, the list process_logs_in_chunks returns is
   the list that tagging all the parsed records of the file as one chunk
   gives, and the two reports are the counts of that list. *)
C8_ChunkSizeIrrelevant ==
    ProcessReturned =>
        LET rows == WellFormedRows(Len(log_file.rows))
            single == tag_flow_logs([k \in 1..Len(rows) |-> MakeFlowLog(rows[k])],
                                    lookup_table)
        IN  /\ chunk_list = single
            /\ tag_report.state = "written" => tag_report.rows = count_tags(single)
            /\ port_protocol_report.state = "written" =>
                  port_protocol_report.rows = port_protocol_counts(single)

C8_Witness ==
    /\ ProcessReturned
    /\ port_protocol_report.state = "written"
    /\ chunk_size = 1
    /\ Len(chunk_list) = 3

(* C9: an exception ends the run at the stage that raised it: when loading
   the lookup table or processing the log raised, neither report exists, and
   when saving the tag counts raised, the port-protocol report does not. *)
C9_FatalErrorAborts ==
    /\ error # "none" => pc = "done"
    /\ failed_at \in {"load_lookup_table", "open_log", "read"} =>
          /\ tag_counts = <<>>
          /\ tag_report.state = "absent"
          /\ port_protocol_report.state = "absent"
    /\ failed_at = "load_lookup_table" => chunk_list = <<>> /\ line_no = 1
    /\ failed_at = "save_tag_counts" => port_protocol_report.state = "absent"
    /\ failed_at = "none" /\ pc # "done" => port_protocol_report.state = "absent"

C9_Witness ==
    /\ pc = "done"
    /\ failed_at = "save_tag_counts"
    /\ tag_report.state = "partial"
    /\ Len(chunk_list) >= 1

(* C10: when a line is about to be read the buffer holds fewer than
   chunk_size records, and the records tagged so far followed by those of
   the buffer are the 14-token lines read so far, each once, in file order;
   at the end the accumulated list is all of them. *)
C10_SequentialChunks ==
    LET SameFields(log, row) ==
            \A c \in 1..FieldCount :
                column_names[c] # "protocol" => log[column_names[c]] = row[c]
        InOrder(logs, rows) ==
            /\ Len(logs) = Len(rows)
            /\ \A k \in 1..Len(rows) : SameFields(logs[k], rows[k])
    IN  /\ pc = "read" =>
              /\ Len(current_chunk) < chunk_size
              /\ \A k \in 1..Len(chunk_list) : "tag" \in DOMAIN chunk_list[k]
              /\ \A k \in 1..Len(current_chunk) : "tag" \notin DOMAIN current_chunk[k]
              /\ InOrder(chunk_list \o current_chunk, WellFormedRows(line_no - 1))
        /\ ProcessReturned =>
              /\ \A k \in 1..Len(chunk_list) : "tag" \in DOMAIN chunk_list[k]
              /\ InOrder(chunk_list, WellFormedRows(Len(log_file.rows)))

C10_Witness ==
    /\ pc = "done"
    /\ error = "none"
    /\ chunk_size = 2
    /\ Len(chunk_list) = 3
    /\ chunk_list[1]["dstport"] # chunk_list[2]["dstport"]

====
